---- MODULE Spec2Model ----
(***************************************************************************)
(* State-machine model of ddtrace/contrib/graphql/patch.py: the patch() /  *)
(* unpatch() life cycle of the graphql integration, the four span-producing*)
(* wrappers (_traced_query, _traced_parse, _traced_validate,              *)
(* _traced_execute), the resolver middleware and the middleware injector.  *)
(*                                                                         *)
(* A call is modelled by an explicit call stack of frames.  A wrapper is   *)
(* split in two actions: its entry (everything up to and including the     *)
(* call of the wrapped function) and its return (everything after that     *)
(* call, including leaving the `with` block).                              *)
(***************************************************************************)
EXTENDS Integers, Sequences, FiniteSets, TLC

VARIABLES
    graphql_version,    \* parse_version(graphql.__version__): <<major, minor>>
    _datadog_patch,     \* getattr(graphql, "_datadog_patch", False)
    pin,                \* Pin.get_from(graphql): "absent", "enabled" or "disabled"
    resolvers_enabled,  \* config.graphql.resolvers_enabled
    table,              \* the live function table: <<module, name>> -> function value
    stack,              \* call stack of the call in progress (<<>> when idle)
    spans,              \* spans of the trace of the current top-level call
    now,                \* logical clock of the tracer (one tick per span open/close)
    result,             \* outcome handed to the caller of the last top-level call
    caller_middleware,  \* the middleware list or MiddlewareManager user code owns
                        \* and passed to its last call, as it is now (Absent: none)
    op                  \* which top-level operation ran last, and which branch it took

vars == <<graphql_version, _datadog_patch, pin, resolvers_enabled, table,
          stack, spans, now, result, caller_middleware, op>>

(***************************************************************************)
(* Bounds of the model.                                                    *)
(***************************************************************************)
MaxFields == 2          \* fields resolved by one execute call
MaxMiddlewares == 2     \* length of the middleware list a caller passes
MaxErrors == 2          \* length of an error list the library returns
MaxLen == 3             \* length of a source text handed to _get_source_str alone

(***************************************************************************)
(* Values.  Every python value is a record [t |-> type, s |-> payload],    *)
(* the payload being a sequence of strings (characters of a text, names of *)
(* middlewares, errors of a list).                                         *)
(***************************************************************************)
V(t, s) == [t |-> t, s |-> s]
Absent == V("absent", <<>>)      \* no value: the key is not in kwargs
NoneV == V("None", <<>>)         \* python None
Schema == V("schema", <<>>)
Filler == V("arg", <<>>)         \* an argument the integration never reads

NoKw == [source |-> Absent, document |-> Absent, document_ast |-> Absent,
         middleware |-> Absent]
NoArgs == [pos |-> <<>>, kw |-> NoKw]

NoOutcome == [t |-> "none", v |-> Absent]
Ret(v) == [t |-> "ret", v |-> v]
Exc(name) == [t |-> "exc", v |-> V(name, <<>>)]

Front(s) == SubSeq(s, 1, Len(s) - 1)
Last(s) == s[Len(s)]

\* tuple comparison graphql_version < (a, b)
VLess(v, w) == v[1] < w[1] \/ (v[1] = w[1] /\ v[2] < w[2])

Versions == {<<1, 9>>, <<2, 3>>, <<3, 0>>, <<3, 1>>, <<3, 2>>}

(***************************************************************************)
(* ddtrace.internal.wrapping, by its contract: wrap installs a wrapper      *)
(* around a function, unwrap removes it.  A function value is the sequence *)
(* <<original, wrapper_1, ..., wrapper_n>> of the original function and the *)
(* wrappers installed around it, outermost last.                           *)
(***************************************************************************)
wrap(f, wrapper) == Append(f, wrapper)

unwrap(f, wrapper) ==
    IF Len(f) > 1 /\ Last(f) = wrapper THEN Front(f) ELSE f

(***************************************************************************)
(* _get_patching_candidates                                                *)
(***************************************************************************)
_get_patching_candidates ==
    IF VLess(graphql_version, <<3, 0>>)
    THEN << <<"graphql.graphql", "execute_graphql", "_traced_query">>,
            <<"graphql.language.parser", "parse", "_traced_parse">>,
            <<"graphql.validation.validation", "validate", "_traced_validate">>,
            <<"graphql.execution.executor", "execute", "_traced_execute">> >>
    ELSE << <<"graphql.graphql", "graphql_impl", "_traced_query">>,
            <<"graphql.language.parser", "parse", "_traced_parse">>,
            <<"graphql.validation.validate", "validate", "_traced_validate">>,
            <<"graphql.execution.execute", "execute", "_traced_execute">> >>

\* the call sites of the installed library: sys.modules[module_str].func_name
Sites == {<<c[1], c[2]>> : c \in {_get_patching_candidates[i] : i \in 1..4}}

\* the site that carries a given wrapper in the resolved partition
SiteOf(wrapper) ==
    CHOOSE s \in Sites : \E i \in 1..4 :
        /\ _get_patching_candidates[i][3] = wrapper
        /\ s = <<_get_patching_candidates[i][1], _get_patching_candidates[i][2]>>

\* the function table of the library as imported, before any patching
OriginalTable == [s \in Sites |-> <<s[2]>>]

(***************************************************************************)
(* _update_patching(operation, module_str, func_name, wrapper), the        *)
(* operation being wrap or unwrap, applied to table t.                     *)
(***************************************************************************)
_update_patching(operation, t, module_str, func_name, wrapper) ==
    LET func == t[<<module_str, func_name>>] IN
    [t EXCEPT ![<<module_str, func_name>>] =
        IF operation = "wrap" THEN wrap(func, wrapper) ELSE unwrap(func, wrapper)]

\* for module_str, func_name, wrapper in _get_patching_candidates(): ...
RECURSIVE ForCandidates(_, _, _)
ForCandidates(operation, t, i) ==
    IF i > Len(_get_patching_candidates) THEN t
    ELSE LET c == _get_patching_candidates[i] IN
         ForCandidates(operation, _update_patching(operation, t, c[1], c[2], c[3]), i + 1)

Idle == stack = <<>>

UnchangedCall == UNCHANGED <<stack, spans, now, result, caller_middleware>>

(***************************************************************************)
(* patch()                                                                 *)
(***************************************************************************)
patch_unguarded ==
    /\ Idle
    /\ _datadog_patch' = TRUE
    /\ \E p \in {"enabled", "disabled"} : pin' = p
    /\ table' = ForCandidates("wrap", table, 1)
    /\ op' = "patch"
    /\ UNCHANGED <<graphql_version, resolvers_enabled>>
    /\ UnchangedCall

patch ==
    /\ Idle
    /\ IF _datadog_patch
       THEN /\ op' = "patch_return"
            /\ UNCHANGED <<_datadog_patch, pin, table>>
       ELSE /\ _datadog_patch' = TRUE
            \* Pin().onto(graphql): a fresh pin on the global tracer, which
            \* is enabled or not
            /\ \E p \in {"enabled", "disabled"} : pin' = p
            /\ table' = ForCandidates("wrap", table, 1)
            /\ op' = "patch"
    /\ UNCHANGED <<graphql_version, resolvers_enabled>>
    /\ UnchangedCall

(***************************************************************************)
(* unpatch()                                                               *)
(***************************************************************************)
unpatch_copied_from_patch ==
    /\ Idle
    /\ table' = ForCandidates("wrap", table, 1)
    /\ _datadog_patch' = FALSE
    /\ op' = "unpatch"
    /\ UNCHANGED <<graphql_version, resolvers_enabled, pin>>
    /\ UnchangedCall

unpatch_flag_only ==
    /\ Idle
    /\ IF ~_datadog_patch \/ VLess(graphql_version, <<2, 0>>)
       THEN /\ op' = "unpatch_return"
            /\ UNCHANGED <<_datadog_patch, table>>
       ELSE /\ table' = table
            /\ _datadog_patch' = FALSE
            /\ op' = "unpatch"
    /\ UNCHANGED <<graphql_version, resolvers_enabled, pin>>
    /\ UnchangedCall

unpatch_any_version ==
    /\ Idle
    /\ IF ~_datadog_patch
       THEN /\ op' = "unpatch_return"
            /\ UNCHANGED <<_datadog_patch, table>>
       ELSE /\ table' = ForCandidates("unwrap", table, 1)
            /\ _datadog_patch' = FALSE
            /\ op' = "unpatch"
    /\ UNCHANGED <<graphql_version, resolvers_enabled, pin>>
    /\ UnchangedCall

unpatch_flag_kept ==
    /\ Idle
    /\ IF ~_datadog_patch \/ VLess(graphql_version, <<2, 0>>)
       THEN /\ op' = "unpatch_return"
            /\ UNCHANGED <<_datadog_patch, table>>
       ELSE /\ table' = ForCandidates("unwrap", table, 1)
            /\ _datadog_patch' = _datadog_patch
            /\ op' = "unpatch"
    /\ UNCHANGED <<graphql_version, resolvers_enabled, pin>>
    /\ UnchangedCall

unpatch ==
    /\ Idle
    /\ IF ~_datadog_patch \/ VLess(graphql_version, <<2, 0>>)
       THEN /\ op' = "unpatch_return"
            /\ UNCHANGED <<_datadog_patch, table>>
       ELSE /\ table' = ForCandidates("unwrap", table, 1)
            /\ _datadog_patch' = FALSE
            /\ op' = "unpatch"
    /\ UNCHANGED <<graphql_version, resolvers_enabled, pin>>
    /\ UnchangedCall

(***************************************************************************)
(* The pin on the graphql module is process-wide state that user code may  *)
(* replace or remove between calls (Pin.override, Pin.remove_from, the     *)
(* tracer being enabled or disabled).                                      *)
(***************************************************************************)
pin_override ==
    /\ Idle
    /\ \E p \in {"absent", "enabled", "disabled"} : p # pin /\ pin' = p
    /\ op' = "pin"
    /\ UNCHANGED <<graphql_version, _datadog_patch, resolvers_enabled, table>>
    /\ UnchangedCall

\* pin = Pin.get_from(graphql); `not pin or not pin.enabled()` is ~PinEnabled
PinEnabled == pin = "enabled"

(***************************************************************************)
(* Texts are sequences of characters; longer fixed texts (span names, tag  *)
(* keys, messages) are sequences of pieces.                                *)
(***************************************************************************)
IsSpace(c) == c \in {" ", "\n", "\t"}

RECURSIVE LStrip(_)
LStrip(s) == IF s # <<>> /\ IsSpace(s[1]) THEN LStrip(Tail(s)) ELSE s

RECURSIVE RStrip(_)
RStrip(s) == IF s # <<>> /\ IsSpace(Last(s)) THEN RStrip(Front(s)) ELSE s

\* re.sub(r"\s+", " ", s)
RECURSIVE CollapseSpace(_)
CollapseSpace(s) ==
    IF s = <<>> THEN <<>>
    ELSE IF IsSpace(s[1]) THEN <<" ">> \o CollapseSpace(LStrip(s))
    ELSE <<s[1]>> \o CollapseSpace(Tail(s))

(***************************************************************************)
(* _get_source_str(obj)                                                    *)
(***************************************************************************)
_get_source_str_unstripped(obj) ==
    LET source_str == IF obj.t \in {"str", "Source", "Document"} THEN obj.s ELSE <<>>
    IN CollapseSpace(source_str)

_get_source_str(obj) ==
    LET source_str ==
            IF obj.t = "str" THEN obj.s                \* isinstance(obj, str)
            ELSE IF obj.t = "Source" THEN obj.s        \* obj.body
            ELSE IF obj.t = "Document" THEN obj.s      \* obj.loc.source.body
            ELSE <<>>
    IN RStrip(LStrip(CollapseSpace(source_str)))

(***************************************************************************)
(* ddtrace.internal.utils.get_argument_value / set_argument_value, by      *)
(* their contract: the positional value if the slot is populated, else the *)
(* keyword value, else ArgumentError.  Python position pos is index pos+1. *)
(***************************************************************************)
get_argument_value(args, kwargs, pos, kw) ==
    IF Len(args) > pos THEN [ok |-> TRUE, v |-> args[pos + 1]]
    ELSE IF kwargs[kw] # Absent THEN [ok |-> TRUE, v |-> kwargs[kw]]
    ELSE [ok |-> FALSE, v |-> Absent]      \* raise ArgumentError

set_argument_value(args, kwargs, pos, kw, value) ==
    IF Len(args) > pos
    THEN [pos |-> [args EXCEPT ![pos + 1] = value], kw |-> kwargs]
    ELSE [pos |-> args, kw |-> [kwargs EXCEPT ![kw] = value]]

(***************************************************************************)
(* _inject_trace_middleware_to_args(trace_middleware, args, kwargs)        *)
(***************************************************************************)
middlewares_arg_from_3_0 == IF ~VLess(graphql_version, <<3, 0>>) THEN 9 ELSE 8

middlewares_arg == IF ~VLess(graphql_version, <<3, 2>>) THEN 9 ELSE 8

_inject_prepending(trace_middleware, args, kwargs) ==
    LET found == get_argument_value(args, kwargs, middlewares_arg, "middleware")
        middlewares == IF ~found.ok THEN <<>>
                       ELSE IF found.v.t \in {"None", "absent"} THEN <<>>
                       ELSE found.v.s
    IN set_argument_value(args, kwargs, middlewares_arg, "middleware",
                          V("list", <<trace_middleware>> \o middlewares))

\* the middleware object of the caller once the injector has run on it:
\* list(middlewares) + [trace_middleware] builds a new list and leaves the
\* object it read as it is
middlewares_appended_in_place(obj, trace_middleware) ==
    IF obj.s # <<>> THEN [obj EXCEPT !.s = Append(@, trace_middleware)] ELSE obj

middlewares_after(obj, trace_middleware) == obj

_inject_manager_dropped(trace_middleware, args, kwargs) ==
    LET found == get_argument_value(args, kwargs, middlewares_arg, "middleware")
        middlewares == IF found.ok /\ found.v.t = "list" THEN found.v.s ELSE <<>>
    IN set_argument_value(args, kwargs, middlewares_arg, "middleware",
                          V("list", Append(middlewares, trace_middleware)))

_inject_as_keyword(trace_middleware, args, kwargs) ==
    LET found == get_argument_value(args, kwargs, middlewares_arg, "middleware")
        middlewares == IF ~found.ok THEN <<>>
                       ELSE IF found.v.t \in {"None", "absent"} THEN <<>>
                       ELSE found.v.s
    IN [pos |-> args,
        kw |-> [kwargs EXCEPT !.middleware =
                                  V("list", Append(middlewares, trace_middleware))]]

_inject_before_last(trace_middleware, args, kwargs) ==
    LET found == get_argument_value(args, kwargs, middlewares_arg, "middleware")
        middlewares == IF ~found.ok THEN <<>>
                       ELSE IF found.v.t \in {"None", "absent"} THEN <<>>
                       ELSE found.v.s
    IN set_argument_value(args, kwargs, middlewares_arg, "middleware",
                          V("list", IF middlewares = <<>> THEN <<trace_middleware>>
                                    ELSE Front(middlewares)
                                             \o <<trace_middleware, Last(middlewares)>>))

_inject_trace_middleware_to_args(trace_middleware, args, kwargs) ==
    LET found == get_argument_value(args, kwargs, middlewares_arg, "middleware")
        \* `... or []`, the contents of a MiddlewareManager, or [] on ArgumentError
        middlewares == IF ~found.ok THEN <<>>
                       ELSE IF found.v.t \in {"None", "absent"} THEN <<>>
                       ELSE found.v.s
    IN set_argument_value(args, kwargs, middlewares_arg, "middleware",
                          V("list", Append(middlewares, trace_middleware)))

(***************************************************************************)
(* Spans.  pin.tracer.trace(...) opens a span, leaving the `with` block    *)
(* finishes it; both advance the tracer's clock.                           *)
(***************************************************************************)
None == <<"None">>                       \* no resource / no service passed
Service == <<"graphql">>                 \* trace_utils.int_service(pin, config.graphql)
SpanTypesGRAPHQL == <<"graphql">>
ERROR_MSG == "error.msg"
ERROR_TYPE == "error.type"
ERROR_STACK == "error.stack"
SPAN_MEASURED_KEY == "_dd.measured"
ANALYTICS_SAMPLE_RATE_KEY == "_dd1.sr.eausr"

Trace(name, resource, service) ==
    [name |-> name, resource |-> resource, service |-> service,
     span_type |-> SpanTypesGRAPHQL, start |-> now + 1, finish |-> 0,
     error |-> 0, tags |-> {}]

_set_str_tag(span, key, value) ==
    [span EXCEPT !.tags = {t \in @ : t[1] # key} \cup {<<key, value>>}]

\* stringify(error): the message of a GraphQLError
stringify(error) ==
    CASE error = "e1" -> "Syntax Error"
      [] error = "e2" -> "Unknown field"
      [] OTHER -> "Resolver failed"

\* "\n".join(msgs)
RECURSIVE Join(_)
Join(msgs) ==
    IF msgs = <<>> THEN <<>>
    ELSE IF Len(msgs) = 1 THEN msgs
    ELSE <<msgs[1], "\n">> \o Join(Tail(msgs))

\* "%s.%s" % (GraphQLError.__module__, GraphQLError.__name__)
exc_type_str == <<"graphql.error", ".", "GraphQLError">>

(***************************************************************************)
(* _set_span_errors(errors, span)                                          *)
(***************************************************************************)
_set_span_errors_always(errors, span) ==
    _set_str_tag(
        _set_str_tag(
            _set_str_tag([span EXCEPT !.error = 1],
                         ERROR_MSG, Join([i \in 1..Len(errors) |-> stringify(errors[i])])),
            ERROR_TYPE, exc_type_str),
        ERROR_STACK, <<>>)

_set_span_errors(errors, span) ==
    IF errors = <<>> THEN span
    ELSE _set_str_tag(
             _set_str_tag(
                 _set_str_tag([span EXCEPT !.error = 1],
                              ERROR_MSG, Join([i \in 1..Len(errors) |-> stringify(errors[i])])),
                 ERROR_TYPE, exc_type_str),
             ERROR_STACK, <<>>)

(***************************************************************************)
(* _init_span(span)                                                        *)
(***************************************************************************)
SampleRates == {NoneV, V("float", <<"1.0">>)}   \* config.graphql.get_analytics_sample_rate()

_init_span(span, sample_rate) ==
    LET measured == _set_str_tag(span, SPAN_MEASURED_KEY, <<"1">>) IN
    IF sample_rate # NoneV
    THEN _set_str_tag(measured, ANALYTICS_SAMPLE_RATE_KEY, sample_rate.s)
    ELSE measured

(***************************************************************************)
(* The call stack.  A frame is one activation of a function:               *)
(*   kind  "wrapper" (a _traced_* wrapper), "orig" (a function of the      *)
(*         graphql library), "mw" (a middleware) or "resolver"             *)
(*   name  which function                                                  *)
(*   func  wrapper: the wrapped function value; middleware: the rest of    *)
(*         the chain (its `next`), innermost first                         *)
(*   args  the arguments received                                          *)
(*   pc    "start", then "wait" while the callee runs ("run" between two   *)
(*         callees), then "done"                                           *)
(*   pin   the wrapper's local `pin`: what Pin.get_from(graphql) gave it    *)
(*   path  the branch a wrapper took: "plain" (no pin, or pin disabled),   *)
(*         "traced" (inside the `with` block) or "error" (it raised before *)
(*         calling)                                                        *)
(*   n0    number of spans of the trace when the frame was entered         *)
(*   span  index in spans of the span the frame opened, 0 if none          *)
(*   sent  the arguments handed to the callee;  calls: number of calls of  *)
(*         the callee;  got: the callee's outcome;  out: the frame's own   *)
(*         outcome                                                         *)
(*   idx, acc  progress of a library function that makes several calls     *)
(***************************************************************************)
NewFrame(kind, name, func, args, n0) ==
    [kind |-> kind, name |-> name, func |-> func, args |-> args, pc |-> "start",
     pin |-> "", path |-> "", n0 |-> n0, span |-> 0,
     sent |-> NoArgs, calls |-> 0, got |-> NoOutcome,
     out |-> NoOutcome, idx |-> 0, acc |-> <<>>]

\* calling function value f: its outermost wrapper, or the original
CallFrame(f, args, n0) ==
    IF Len(f) = 1 THEN NewFrame("orig", f[1], <<>>, args, n0)
    ELSE NewFrame("wrapper", Last(f), Front(f), args, n0)

Top == stack[Len(stack)]
Caller == stack[Len(stack) - 1]

Running(kind, name, pcs) ==
    /\ stack # <<>>
    /\ Top.kind = kind
    /\ Top.name = name
    /\ Top.pc \in pcs

Returning(kind, name) ==
    /\ Len(stack) >= 2
    /\ Top.pc = "done"
    /\ Caller.kind = kind
    /\ Caller.name = name

\* the top frame becomes fr and calls callee
DoCall(fr, callee) == stack' = Append([stack EXCEPT ![Len(stack)] = fr], callee)

\* the top frame is popped and its caller becomes fr
DoReturn(fr) == stack' = Append(SubSeq(stack, 1, Len(stack) - 2), fr)

\* the top frame becomes fr
DoStep(fr) == stack' = [stack EXCEPT ![Len(stack)] = fr]

UnchangedGlobals ==
    UNCHANGED <<graphql_version, _datadog_patch, pin, resolvers_enabled, table, result, op>>

UnchangedSetup == UnchangedGlobals /\ UNCHANGED caller_middleware

\* `return func(*args, **kwargs)` on the untraced path
CallThrough(args) ==
    /\ DoCall([Top EXCEPT !.pc = "wait", !.pin = pin, !.path = "plain", !.sent = args,
                          !.calls = @ + 1],
              CallFrame(Top.func, args, Len(spans)))
    /\ UNCHANGED <<spans, now>>

\* `with pin.tracer.trace(...) as span: ... func(*args, **kwargs)`
CallTraced(span, args) ==
    /\ spans' = Append(spans, span)
    /\ now' = now + 1
    /\ DoCall([Top EXCEPT !.pc = "wait", !.pin = pin, !.path = "traced",
                          !.span = Len(spans) + 1, !.sent = args, !.calls = @ + 1],
              CallFrame(Top.func, args, Len(spans) + 1))

WithExit_on_return_only(i, sp) ==
    IF Top.out.t = "exc"
    THEN spans' = [spans EXCEPT ![i] = sp] /\ now' = now
    ELSE spans' = [spans EXCEPT ![i] = [sp EXCEPT !.finish = now + 1]] /\ now' = now + 1

\* leaving the `with` block of span i, the span having become sp
WithExit(i, sp) ==
    /\ spans' = [spans EXCEPT ![i] = [sp EXCEPT !.finish = now + 1]]
    /\ now' = now + 1

ReturnSame_errors_dropped ==
    DoReturn([Caller EXCEPT !.pc = "done", !.got = Top.out,
                            !.out = IF Top.out.t = "ret" /\ Top.out.v.s # <<>>
                                    THEN Ret(V(Top.out.v.t, <<>>))
                                    ELSE Top.out])

\* the function returns (or raises) what its callee returned (or raised)
ReturnSame == DoReturn([Caller EXCEPT !.pc = "done", !.got = Top.out, !.out = Top.out])

(***************************************************************************)
(* _traced_parse(func, args, kwargs)                                       *)
(***************************************************************************)
_traced_parse ==
    /\ Running("wrapper", "_traced_parse", {"start"})
    /\ IF ~PinEnabled
       THEN CallThrough(Top.args)
       ELSE CallTraced(Trace("graphql.parse", None, Service), Top.args)
    /\ UnchangedSetup

_traced_parse_return_span_left_open ==
    /\ Returning("wrapper", "_traced_parse")
    /\ ReturnSame
    /\ UNCHANGED <<spans, now>>
    /\ UnchangedSetup

_traced_parse_return ==
    /\ Returning("wrapper", "_traced_parse")
    /\ ReturnSame
    /\ IF Caller.path = "traced"
       THEN WithExit(Caller.span, spans[Caller.span])
       ELSE UNCHANGED <<spans, now>>
    /\ UnchangedSetup

(***************************************************************************)
(* _traced_validate(func, args, kwargs)                                    *)
(***************************************************************************)
_traced_validate ==
    /\ Running("wrapper", "_traced_validate", {"start"})
    /\ IF ~PinEnabled
       THEN CallThrough(Top.args)
       ELSE CallTraced(Trace("graphql.validate", None, Service), Top.args)
    /\ UnchangedSetup

_traced_validate_return ==
    /\ Returning("wrapper", "_traced_validate")
    /\ ReturnSame
    /\ IF Caller.path = "traced"
       THEN WithExit(Caller.span,
                     IF Top.out.t = "ret"
                     THEN _set_span_errors(Top.out.v.s, spans[Caller.span])
                     ELSE spans[Caller.span])
       ELSE UNCHANGED <<spans, now>>
    /\ UnchangedSetup

(***************************************************************************)
(* _traced_execute(func, args, kwargs)                                     *)
(***************************************************************************)
DocumentKw == IF VLess(graphql_version, <<3, 0>>) THEN "document_ast" ELSE "document"

_traced_execute_inject_first ==
    /\ Running("wrapper", "_traced_execute", {"start"})
    /\ LET a == IF resolvers_enabled
                THEN _inject_trace_middleware_to_args("_resolver_middleware",
                                                      Top.args.pos, Top.args.kw)
                ELSE Top.args
           document == get_argument_value(a.pos, a.kw, 1, DocumentKw)
       IN IF ~PinEnabled
          THEN CallThrough(a)
          ELSE IF ~document.ok
               THEN /\ DoStep([Top EXCEPT !.pc = "done", !.pin = pin, !.path = "error",
                                          !.out = Exc("ArgumentError")])
                    /\ UNCHANGED <<spans, now>>
               ELSE CallTraced(Trace("graphql.execute", _get_source_str(document.v),
                                     Service), a)
    /\ UnchangedSetup

_traced_execute_document_unchecked ==
    /\ Running("wrapper", "_traced_execute", {"start"})
    /\ IF ~PinEnabled
       THEN CallThrough(Top.args)
       ELSE LET a == IF resolvers_enabled
                     THEN _inject_trace_middleware_to_args("_resolver_middleware",
                                                           Top.args.pos, Top.args.kw)
                     ELSE Top.args
                document == get_argument_value(a.pos, a.kw, 1, DocumentKw)
            IN CallTraced(Trace("graphql.execute",
                                IF document.ok THEN _get_source_str(document.v) ELSE <<>>,
                                Service), a)
    /\ UnchangedSetup

_traced_execute ==
    /\ Running("wrapper", "_traced_execute", {"start"})
    /\ IF ~PinEnabled
       THEN CallThrough(Top.args)
       ELSE LET a == IF resolvers_enabled
                     THEN _inject_trace_middleware_to_args("_resolver_middleware",
                                                           Top.args.pos, Top.args.kw)
                     ELSE Top.args
                document == get_argument_value(a.pos, a.kw, 1, DocumentKw)
            IN IF ~document.ok
               THEN /\ DoStep([Top EXCEPT !.pc = "done", !.pin = pin, !.path = "error",
                                           !.out = Exc("ArgumentError")])
                    /\ UNCHANGED <<spans, now>>
               ELSE CallTraced(Trace("graphql.execute", _get_source_str(document.v),
                                     Service), a)
    \* the injector has read the middleware object of the caller
    /\ caller_middleware' = IF PinEnabled /\ resolvers_enabled
                            THEN middlewares_after(caller_middleware, "_resolver_middleware")
                            ELSE caller_middleware
    /\ UnchangedGlobals

_traced_execute_return_unchecked ==
    /\ Returning("wrapper", "_traced_execute")
    /\ ReturnSame
    /\ IF Caller.path = "traced"
       THEN WithExit(Caller.span,
                     IF Top.out.t = "ret"
                     THEN _set_span_errors(Top.out.v.s, spans[Caller.span])
                     ELSE spans[Caller.span])
       ELSE UNCHANGED <<spans, now>>
    /\ UnchangedSetup

_traced_execute_return ==
    /\ Returning("wrapper", "_traced_execute")
    /\ ReturnSame
    /\ IF Caller.path = "traced"
       THEN WithExit(Caller.span,
                     IF Top.out.t = "ret" /\ Top.out.v.t = "ExecutionResult"
                     THEN _set_span_errors(Top.out.v.s, spans[Caller.span])
                     ELSE spans[Caller.span])
       ELSE UNCHANGED <<spans, now>>
    /\ UnchangedSetup

(***************************************************************************)
(* _traced_query(func, args, kwargs)                                       *)
(***************************************************************************)
_traced_query ==
    /\ Running("wrapper", "_traced_query", {"start"})
    /\ IF ~PinEnabled
       THEN CallThrough(Top.args)
       ELSE LET source == get_argument_value(Top.args.pos, Top.args.kw, 1, "source")
            IN IF ~source.ok
               THEN /\ DoStep([Top EXCEPT !.pc = "done", !.pin = pin, !.path = "error",
                                           !.out = Exc("ArgumentError")])
                    /\ UNCHANGED <<spans, now>>
               ELSE \E sample_rate \in SampleRates :
                        CallTraced(_init_span(Trace("graphql.query",
                                                    _get_source_str(source.v), Service),
                                              sample_rate),
                                   Top.args)
    /\ UnchangedSetup

_traced_query_return ==
    /\ Returning("wrapper", "_traced_query")
    /\ ReturnSame
    /\ IF Caller.path = "traced"
       THEN WithExit(Caller.span,
                     IF Top.out.t = "ret" /\ Top.out.v.t = "ExecutionResult"
                     THEN _set_span_errors(Top.out.v.s, spans[Caller.span])
                     ELSE spans[Caller.span])
       ELSE UNCHANGED <<spans, now>>
    /\ UnchangedSetup

(***************************************************************************)
(* _resolver_middleware(next_middleware, root, info, **args)               *)
(***************************************************************************)
\* next_middleware: the next middleware of the chain, or the resolver
NextFrame(chain, args, n0) ==
    IF chain = <<>> THEN NewFrame("resolver", "resolver", <<>>, args, n0)
    ELSE NewFrame("mw", Last(chain), Front(chain), args, n0)

field_name_of_root(args) == args.pos[1].s

\* info.field_name
field_name(args) == args.pos[2].s

_resolver_middleware ==
    /\ Running("mw", "_resolver_middleware", {"start"})
    /\ IF ~PinEnabled
       THEN /\ DoCall([Top EXCEPT !.pc = "wait", !.pin = pin, !.path = "plain", !.sent = Top.args,
                                  !.calls = @ + 1],
                      NextFrame(Top.func, Top.args, Len(spans)))
            /\ UNCHANGED <<spans, now>>
       ELSE /\ spans' = Append(spans, Trace("graphql.resolve", field_name(Top.args), None))
            /\ now' = now + 1
            /\ DoCall([Top EXCEPT !.pc = "wait", !.pin = pin, !.path = "traced",
                                  !.span = Len(spans) + 1,
                                  !.sent = Top.args, !.calls = @ + 1],
                      NextFrame(Top.func, Top.args, Len(spans) + 1))
    /\ UnchangedSetup

_resolver_middleware_return ==
    /\ Returning("mw", "_resolver_middleware")
    /\ ReturnSame
    /\ IF Caller.path = "traced"
       THEN WithExit(Caller.span, spans[Caller.span])
       ELSE UNCHANGED <<spans, now>>
    /\ UnchangedSetup

(***************************************************************************)
(* The graphql library, as far as the integration relies on it: the        *)
(* wrapped functions are opaque (they return a value or raise), except that *)
(* the query entry point calls parse, validate and execute in sequence and *)
(* execute resolves fields through the middleware chain.                   *)
(***************************************************************************)
FieldNames == <<"hello", "world", "name", "id">>
UserMiddlewares == <<"m1", "m2", "m3", "m4">>

ErrorLists(n) == UNION {[1..k -> {"e1", "e2"}] : k \in 0..n}

\* graphql.language.parser.parse
graphql_parse ==
    /\ Running("orig", "parse", {"start"})
    /\ \E o \in {Ret(V("Document", Top.args.pos[1].s)), Exc("GraphQLSyntaxError")} :
           DoStep([Top EXCEPT !.pc = "done", !.out = o])
    /\ UNCHANGED <<spans, now>>
    /\ UnchangedSetup

\* graphql.validation.validate
graphql_validate ==
    /\ Running("orig", "validate", {"start"})
    /\ \E o \in {Ret(V("list", e)) : e \in ErrorLists(MaxErrors)} \cup {Exc("TypeError")} :
           DoStep([Top EXCEPT !.pc = "done", !.out = o])
    /\ UNCHANGED <<spans, now>>
    /\ UnchangedSetup

\* the middlewares execute() applies to every field resolver: those of its
\* middleware argument (a list or a MiddlewareManager), in the order given
ExecuteMiddlewares(args) ==
    LET found == get_argument_value(args.pos, args.kw, middlewares_arg, "middleware")
    IN IF ~found.ok \/ found.v.t = "None" THEN <<>> ELSE found.v.s

\* graphql.execution.execute: raises, resolves one more field through the
\* middleware chain, or returns its result
graphql_execute ==
    /\ Running("orig", "execute", {"start", "run"})
    /\ LET document == get_argument_value(Top.args.pos, Top.args.kw, 1, DocumentKw) IN
       \/ /\ Top.pc = "start"
          /\ ~document.ok
          /\ DoStep([Top EXCEPT !.pc = "done", !.out = Exc("TypeError")])
       \/ /\ Top.pc = "start"
          /\ document.ok
          /\ DoStep([Top EXCEPT !.pc = "done", !.out = Exc("GraphQLError")])
       \/ /\ document.ok
          /\ Top.idx < MaxFields
          \* middlewares are called in reverse order: the last of the list is
          \* called first and wraps the resolver and all other middlewares
          /\ DoCall([Top EXCEPT !.pc = "wait", !.calls = @ + 1],
                    NextFrame(ExecuteMiddlewares(Top.args),
                              [pos |-> <<V("root", <<>>),
                                         V("info", <<FieldNames[Top.idx + 1]>>)>>,
                               kw |-> NoKw],
                              Len(spans)))
       \/ /\ document.ok
          /\ \E t \in {"ExecutionResult", "Promise"} :
                 \* a promise holds the errors of the result it will resolve to
                 DoStep([Top EXCEPT !.pc = "done", !.out = Ret(V(t, Top.acc))])
    /\ UNCHANGED <<spans, now>>
    /\ UnchangedSetup

\* a field resolution has ended: a failed resolver becomes an error of the result
graphql_execute_resume ==
    /\ Returning("orig", "execute")
    /\ DoReturn([Caller EXCEPT !.pc = "run", !.idx = @ + 1, !.got = Top.out,
                               !.acc = IF Top.out.t = "exc" THEN Append(@, "e3") ELSE @])
    /\ UNCHANGED <<spans, now>>
    /\ UnchangedSetup

\* a middleware supplied by the caller: forwards to the next one
user_middleware ==
    /\ stack # <<>>
    /\ Top.kind = "mw"
    /\ Top.name # "_resolver_middleware"
    /\ Top.pc = "start"
    /\ DoCall([Top EXCEPT !.pc = "wait", !.sent = Top.args, !.calls = @ + 1],
              NextFrame(Top.func, Top.args, Len(spans)))
    /\ UNCHANGED <<spans, now>>
    /\ UnchangedSetup

user_middleware_return ==
    /\ Len(stack) >= 2
    /\ Top.pc = "done"
    /\ Caller.kind = "mw"
    /\ Caller.name # "_resolver_middleware"
    /\ ReturnSame
    /\ UNCHANGED <<spans, now>>
    /\ UnchangedSetup

\* the resolver of a field
resolver ==
    /\ Running("resolver", "resolver", {"start"})
    /\ \E o \in {Ret(V("value", <<>>)), Exc("ResolverError")} :
           DoStep([Top EXCEPT !.pc = "done", !.out = o])
    /\ UNCHANGED <<spans, now>>
    /\ UnchangedSetup

\* user code running in a resolver switches tracing off (tracer.enabled = False)
tracer_disabled ==
    /\ Running("resolver", "resolver", {"start"})
    /\ pin = "enabled"
    /\ pin' = "disabled"
    /\ UNCHANGED <<graphql_version, _datadog_patch, resolvers_enabled, table, result, op,
                   stack, spans, now, caller_middleware>>

\* graphql.graphql.graphql_impl / execute_graphql: parse, validate, execute
IsQuery(name) == name \in {"graphql_impl", "execute_graphql"}

graphql_query ==
    /\ stack # <<>>
    /\ Top.kind = "orig"
    /\ IsQuery(Top.name)
    /\ Top.pc = "start"
    /\ LET source == get_argument_value(Top.args.pos, Top.args.kw, 1, "source") IN
       IF ~source.ok
       THEN DoStep([Top EXCEPT !.pc = "done", !.out = Exc("TypeError")])
       ELSE DoCall([Top EXCEPT !.pc = "wait", !.idx = 1, !.calls = @ + 1],
                   CallFrame(table[SiteOf("_traced_parse")],
                             [pos |-> <<source.v>>, kw |-> NoKw], Len(spans)))
    /\ UNCHANGED <<spans, now>>
    /\ UnchangedSetup

graphql_query_resume ==
    /\ Len(stack) >= 2
    /\ Top.pc = "done"
    /\ Caller.kind = "orig"
    /\ IsQuery(Caller.name)
    /\ LET o == Top.out
           c == [Caller EXCEPT !.got = o]
       IN CASE Caller.idx = 1 /\ o.t = "exc" ->
                   \* a syntax error becomes a result with one error
                   DoReturn([c EXCEPT !.pc = "done",
                                      !.out = Ret(V("ExecutionResult", <<"e1">>))])
            [] Caller.idx = 1 /\ o.t = "ret" ->
                   stack' = Append(SubSeq(stack, 1, Len(stack) - 2),
                                   [c EXCEPT !.idx = 2, !.calls = @ + 1, !.acc = o.v.s])
                            \o <<CallFrame(table[SiteOf("_traced_validate")],
                                           [pos |-> <<Schema, o.v>>, kw |-> NoKw],
                                           Len(spans))>>
            [] Caller.idx = 2 /\ o.t = "exc" ->
                   DoReturn([c EXCEPT !.pc = "done", !.out = o])
            [] Caller.idx = 2 /\ o.t = "ret" /\ o.v.s # <<>> ->
                   DoReturn([c EXCEPT !.pc = "done",
                                      !.out = Ret(V("ExecutionResult", o.v.s))])
            [] Caller.idx = 2 /\ o.t = "ret" /\ o.v.s = <<>> ->
                   stack' = Append(SubSeq(stack, 1, Len(stack) - 2),
                                   [c EXCEPT !.idx = 3, !.calls = @ + 1])
                            \o <<CallFrame(table[SiteOf("_traced_execute")],
                                           [pos |-> <<Schema, V("Document", Caller.acc)>>,
                                            kw |-> [NoKw EXCEPT !.middleware =
                                                        Caller.args.kw.middleware]],
                                           Len(spans))>>
            [] OTHER ->
                   DoReturn([c EXCEPT !.pc = "done", !.out = o])
    /\ UNCHANGED <<spans, now>>
    /\ UnchangedSetup

(***************************************************************************)
(* Calls of the library by user code.                                      *)
(***************************************************************************)
Text1 == <<"\n", "q", " ", "\n", "a", "\t">>
Text2 == <<"q", " ", "b">>

Prefix(s, n) == SubSeq(s, 1, n)

MiddlewareValues ==
    {NoneV} \cup {V(t, Prefix(UserMiddlewares, n)) :
                     t \in {"list", "MiddlewareManager"}, n \in 0..MaxMiddlewares}

\* all-positional call: the middleware at its positional slot
Positional(document, middleware) ==
    [pos |-> [i \in 1..(middlewares_arg + 1) |->
                 IF i = 1 THEN Schema
                 ELSE IF i = 2 THEN document
                 ELSE IF i = middlewares_arg + 1 THEN middleware
                 ELSE Filler],
     kw |-> NoKw]

ExecuteArgs ==
    LET doc == V("Document", Text1) IN
    {Positional(doc, m) : m \in MiddlewareValues}
    \cup {[pos |-> <<Schema, d>>, kw |-> NoKw] :
             d \in {doc, V("str", Text2), V("bytes", Text2)}}
    \cup {[pos |-> <<Schema, doc>>, kw |-> [NoKw EXCEPT !.middleware = m]] :
             m \in MiddlewareValues}
    \cup {[pos |-> <<Schema>>, kw |-> [NoKw EXCEPT ![DocumentKw] = doc, !.middleware = m]] :
             m \in MiddlewareValues \cup {Absent}}
    \cup {[pos |-> <<Schema>>, kw |-> [NoKw EXCEPT !.middleware = m]] :
             m \in {Absent, V("list", Prefix(UserMiddlewares, 1))}}

QueryArgs ==
    LET mws == {Absent, V("list", Prefix(UserMiddlewares, MaxMiddlewares))} IN
    {[pos |-> <<Schema, s>>, kw |-> [NoKw EXCEPT !.middleware = m]] :
        s \in {V("str", Text1), V("Source", Text2)}, m \in mws}
    \cup {[pos |-> <<Schema>>, kw |-> [NoKw EXCEPT !.source = V("str", Text1)]],
          [pos |-> <<Schema>>, kw |-> NoKw]}

ArgsOf(site) ==
    IF site = SiteOf("_traced_parse") THEN {[pos |-> <<V("str", Text1)>>, kw |-> NoKw]}
    ELSE IF site = SiteOf("_traced_validate")
         THEN {[pos |-> <<Schema, V("Document", Text1)>>, kw |-> NoKw]}
    ELSE IF site = SiteOf("_traced_execute") THEN ExecuteArgs
    ELSE QueryArgs

\* the middleware argument of a call: at its positional slot if the call has
\* that many positional arguments, else the keyword
GivenMiddleware(a) ==
    IF Len(a.pos) > middlewares_arg THEN a.pos[middlewares_arg + 1] ELSE a.kw.middleware

\* the middleware object (list or MiddlewareManager) passed with a call
Owned(a) ==
    IF GivenMiddleware(a).t \in {"list", "MiddlewareManager"} THEN GivenMiddleware(a)
    ELSE Absent

\* user code calls a function of the library; the spans of the previous
\* trace have been flushed by the tracer
call ==
    /\ Idle
    /\ \E site \in Sites : \E args \in ArgsOf(site) :
           /\ stack' = <<CallFrame(table[site], args, 0)>>
           /\ caller_middleware' = Owned(args)
    /\ spans' = <<>>
    /\ now' = 0
    /\ result' = NoOutcome
    /\ op' = "call"
    /\ UNCHANGED <<graphql_version, _datadog_patch, pin, resolvers_enabled, table>>

\* user code calls execute once more, the document given positionally, with
\* the middleware object of its previous call as it is now
call_again ==
    /\ Idle
    /\ op \in {"call", "call_again"}
    /\ caller_middleware # Absent
    /\ \E args \in {a \in ExecuteArgs : Owned(a) # Absent /\ Len(a.pos) = 2} :
           LET again == set_argument_value(args.pos, args.kw, middlewares_arg,
                                           "middleware", caller_middleware)
           IN stack' = <<CallFrame(table[SiteOf("_traced_execute")], again, 0)>>
    /\ spans' = <<>>
    /\ now' = 0
    /\ result' = NoOutcome
    /\ op' = "call_again"
    /\ UNCHANGED <<graphql_version, _datadog_patch, pin, resolvers_enabled, table,
                   caller_middleware>>

\* the outermost function returns to user code; the trace is complete and
\* the tracer hands its spans to the writer
return ==
    /\ Len(stack) = 1
    /\ Top.pc = "done"
    /\ stack' = <<>>
    /\ result' = Top.out
    /\ spans' = <<>>
    /\ now' = 0
    /\ UNCHANGED <<graphql_version, _datadog_patch, pin, resolvers_enabled, table,
                   caller_middleware, op>>

(***************************************************************************)
(* _get_source_str called on its own, on every object of a bounded set:    *)
(* a str, a Source or a Document with any text of at most MaxLen           *)
(* characters, or an object of another type; and again on what it returned. *)
(***************************************************************************)
SourceChars == {" ", "\n", "\t", "q", "a"}

Texts(n) == UNION {[1..k -> SourceChars] : k \in 0..n}

SourceObjects ==
    {V(t, s) : t \in {"str", "Source", "Document", "bytes"}, s \in Texts(MaxLen)}

get_source_str_call ==
    /\ Running("pure", "_get_source_str", {"start"})
    /\ DoStep([Top EXCEPT !.pc = "done",
                          !.out = Ret(V("str", _get_source_str(Top.args.pos[1])))])
    /\ UNCHANGED <<spans, now>>
    /\ UnchangedSetup

\* the string returned is handed to _get_source_str once more
get_source_str_again ==
    /\ Idle
    /\ op = "source"
    /\ result.t = "ret"
    /\ stack' = <<[NewFrame("pure", "_get_source_str", <<>>,
                            [pos |-> <<result.v>>, kw |-> NoKw], 0) EXCEPT !.idx = 1]>>
    /\ result' = NoOutcome
    /\ op' = "again"
    /\ UNCHANGED <<graphql_version, _datadog_patch, pin, resolvers_enabled, table,
                   spans, now, caller_middleware>>

SourceInit ==
    /\ graphql_version = <<3, 2>>
    /\ _datadog_patch = FALSE
    /\ pin = "absent"
    /\ resolvers_enabled = FALSE
    /\ table = OriginalTable
    /\ \E obj \in SourceObjects :
           stack = <<NewFrame("pure", "_get_source_str", <<>>,
                              [pos |-> <<obj>>, kw |-> NoKw], 0)>>
    /\ spans = <<>>
    /\ now = 0
    /\ result = NoOutcome
    /\ caller_middleware = Absent
    /\ op = "source"

SourceNext ==
    \/ get_source_str_call
    \/ return
    \/ get_source_str_again

SourceSpec == SourceInit /\ [][SourceNext]_vars

(***************************************************************************)
(* The specification.                                                      *)
(***************************************************************************)
Init ==
    /\ graphql_version \in Versions
    /\ _datadog_patch = FALSE
    /\ pin = "absent"
    /\ resolvers_enabled \in BOOLEAN
    /\ table = OriginalTable
    /\ stack = <<>>
    /\ spans = <<>>
    /\ now = 0
    /\ result = NoOutcome
    /\ caller_middleware = Absent
    /\ op = "import"

Next ==
    \/ patch
    \/ unpatch
    \/ pin_override
    \/ call
    \/ call_again
    \/ return
    \/ _traced_parse
    \/ _traced_parse_return
    \/ _traced_validate
    \/ _traced_validate_return
    \/ _traced_execute
    \/ _traced_execute_return
    \/ _traced_query
    \/ _traced_query_return
    \/ _resolver_middleware
    \/ _resolver_middleware_return
    \/ graphql_parse
    \/ graphql_validate
    \/ graphql_execute
    \/ graphql_execute_resume
    \/ graphql_query
    \/ graphql_query_resume
    \/ user_middleware
    \/ user_middleware_return
    \/ resolver
    \/ tracer_disabled

Spec == Init /\ [][Next]_vars

(***************************************************************************)
(* Properties of patch() and unpatch().                                    *)
(***************************************************************************)
\* every call site of the resolved partition holds its wrapper, once
PatchedTable == ForCandidates("wrap", OriginalTable, 1)

\* number of wrappers installed around the function at site s
Wrappers(s) == Len(table[s]) - 1

PatchOps == {"patch", "patch_return"}
UnpatchOps == {"unpatch", "unpatch_return"}

\* C1: after a patch() call, whether it was the first or a repeated one, every
\* call site of the resolved partition carries exactly one wrapper (its own)
\* and the table is the one a single patch() of the imported library yields.
C1_PatchIdempotent ==
    op \in PatchOps =>
        /\ _datadog_patch
        /\ \A s \in Sites : Wrappers(s) = 1
        /\ \A i \in 1..Len(_get_patching_candidates) :
               LET c == _get_patching_candidates[i] IN
               table[<<c[1], c[2]>>] = <<c[2], c[3]>>
        /\ table = PatchedTable

\* a patch() call that found the library already patched has returned
C1_Witness ==
    /\ op = "patch_return"
    /\ _datadog_patch
    /\ table = PatchedTable

\* C2: an unpatch() call that directly follows a patch() call, the library
\* version being at least 2.0, leaves every call site holding the original
\* function of the imported library and the patch flag false.
C2_RoundTrip ==
    [][(/\ op = "patch"
        /\ op' \in UnpatchOps
        /\ ~VLess(graphql_version, <<2, 0>>))
       => (/\ table' = OriginalTable
           /\ \A s \in Sites : table'[s] = <<s[2]>>
           /\ _datadog_patch' = FALSE)]_vars

\* unpatch() has undone a patch() of a library of version >= 2.0
C2_Witness ==
    /\ op = "unpatch"
    /\ ~VLess(graphql_version, <<2, 0>>)
    /\ table = OriginalTable
    /\ ~_datadog_patch

\* C3: an unpatch() call made while the patch flag is false leaves the flag
\* false and the function table untouched.
C3_UnpatchUnpatched ==
    [][(op' \in UnpatchOps /\ ~_datadog_patch)
       => (_datadog_patch' = FALSE /\ table' = table)]_vars

\* unpatch() has returned early on a library that is not patched
C3_Witness ==
    /\ op = "unpatch_return"
    /\ ~_datadog_patch
    /\ ~VLess(graphql_version, <<2, 0>>)
    /\ table = OriginalTable

\* C10: with a library version below 2.0, an unpatch() call changes neither
\* the patch flag nor the function table, whatever the state.
C10_UnpatchBelowMinimum ==
    [][(op' \in UnpatchOps /\ VLess(graphql_version, <<2, 0>>))
       => (_datadog_patch' = _datadog_patch /\ table' = table)]_vars

\* unpatch() has returned on a patched library of version below 2.0: the
\* flag is still true and the wrappers are still installed
C10_Witness ==
    /\ op = "unpatch_return"
    /\ VLess(graphql_version, <<2, 0>>)
    /\ _datadog_patch
    /\ table = PatchedTable

(***************************************************************************)
(* Properties of the wrappers.  A tracing frame is an activation of one of *)
(* the four wrappers or of the resolver middleware.                        *)
(***************************************************************************)
Frames == 1..Len(stack)

IsTracing(f) == f.kind = "wrapper" \/ (f.kind = "mw" /\ f.name = "_resolver_middleware")

IsUserMiddleware(f) == f.kind = "mw" /\ f.name # "_resolver_middleware"

\* the frame has made its pin check
Entered(f) == IsTracing(f) /\ f.pc # "start"

Untraced(f) == Entered(f) /\ f.pin \in {"absent", "disabled"}

Traced(f) == Entered(f) /\ f.pin = "enabled"

\* C4: a wrapper or the resolver middleware that found no pin or a disabled
\* one calls the wrapped function (the next middleware) exactly once, with the
\* arguments it received, opens no span (no span appears in the trace while it
\* runs) and ends with exactly the outcome of that call; the execute wrapper
\* therefore hands on the middleware argument as it is.
C4_UntracedCallThrough ==
    \A i \in Frames :
        LET f == stack[i] IN
        Untraced(f) =>
            /\ f.calls = 1
            /\ f.sent = f.args
            /\ f.span = 0
            /\ Len(spans) = f.n0
            /\ f.pc = "wait" =>
                   /\ i < Len(stack)
                   /\ stack[i + 1].args = f.args
            /\ f.pc = "done" => (f.got # NoOutcome /\ f.out = f.got)

\* the execute wrapper, resolvers_enabled being on, has called straight
\* through with a middleware list of the caller and returned the result
C4_Witness ==
    /\ stack # <<>>
    /\ Top.name = "_traced_execute"
    /\ Untraced(Top)
    /\ resolvers_enabled
    /\ Top.pc = "done"
    /\ Top.args.kw.middleware = V("list", <<"m1", "m2">>)
    /\ Top.out.t = "ret"
    /\ spans = <<>>

\* the resolver middleware has called straight through on a disabled pin and
\* the resolver's exception has come back
C4_WitnessMiddleware ==
    /\ stack # <<>>
    /\ Top.name = "_resolver_middleware"
    /\ Untraced(Top)
    /\ Top.pc = "done"
    /\ Top.out.t = "exc"

\* C5: a wrapper (or the resolver middleware) that runs traced and whose
\* callee raised ends with the same exception, its span finished; and every
\* span that is not finished belongs to a frame that is still waiting for its
\* callee, so no span outlives the wrapper that opened it.
C5_ExceptionPropagates ==
    /\ \A i \in Frames :
           LET f == stack[i] IN
           (Traced(f) /\ f.pc = "done" /\ f.got.t = "exc") =>
               /\ f.out = f.got
               /\ f.span # 0
               /\ spans[f.span].finish > 0
    /\ \A j \in 1..Len(spans) :
           spans[j].finish = 0 =>
               \E i \in Frames : stack[i].span = j /\ stack[i].pc = "wait"

\* the validate wrapper ends with the exception of validate, its span closed
C5_Witness ==
    /\ stack # <<>>
    /\ Top.name = "_traced_validate"
    /\ Traced(Top)
    /\ Top.pc = "done"
    /\ Top.got = Exc("TypeError")
    /\ Top.out = Exc("TypeError")
    /\ spans[Top.span].finish > 0

\* the error message of a list of errors: their texts in order, a new line
\* between two of them
ExpectedMessage(errors) ==
    [k \in 1..(2 * Len(errors) - 1) |->
        IF k % 2 = 1 THEN stringify(errors[(k + 1) \div 2]) ELSE "\n"]

\* C6: when the traced validate wrapper is done and validate returned a list,
\* its span carries the error flag, the message (texts of the errors joined by
\* new lines, in order), the GraphQLError type and an empty stack if the list
\* is not empty, and neither an error flag nor any tag if it is empty.
C6_ValidateErrors ==
    \A i \in Frames :
        LET f == stack[i] IN
        (f.name = "_traced_validate" /\ Traced(f) /\ f.pc = "done" /\ f.got.t = "ret") =>
            LET errors == f.got.v.s
                span == spans[f.span]
            IN IF errors # <<>>
               THEN /\ span.error = 1
                    /\ span.tags = {<<ERROR_MSG, ExpectedMessage(errors)>>,
                                    <<ERROR_TYPE, exc_type_str>>,
                                    <<ERROR_STACK, <<>> >>}
               ELSE /\ span.error = 0
                    /\ span.tags = {}

\* validate returned two errors and the span carries them in that order
C6_Witness ==
    /\ stack # <<>>
    /\ Top.name = "_traced_validate"
    /\ Traced(Top)
    /\ Top.pc = "done"
    /\ Top.got = Ret(V("list", <<"e2", "e1">>))
    /\ spans[Top.span].error = 1
    /\ <<ERROR_MSG, <<"Unknown field", "\n", "Syntax Error">> >> \in spans[Top.span].tags

\* validate returned no error and the span carries no tag
C6_WitnessEmpty ==
    /\ stack # <<>>
    /\ Top.name = "_traced_validate"
    /\ Traced(Top)
    /\ Top.pc = "done"
    /\ Top.got = Ret(V("list", <<>>))
    /\ spans[Top.span].tags = {}

\* the argument a wrapper reads before it opens its span is there
ArgumentFound(f) ==
    CASE f.name = "_traced_execute" ->
             get_argument_value(f.args.pos, f.args.kw, 1, DocumentKw).ok
      [] f.name = "_traced_query" ->
             get_argument_value(f.args.pos, f.args.kw, 1, "source").ok
      [] OTHER -> TRUE

C7_WitnessArgumentError ==
    /\ stack # <<>>
    /\ Top.name = "_traced_execute"
    /\ Traced(Top)
    /\ Top.pc = "done"
    /\ ~ArgumentFound(Top)
    /\ Top.calls = 0

(***************************************************************************)
(* Properties of the resolver middleware.                                  *)
(***************************************************************************)
\* the resolve-stage spans opened after span number i
ResolveSpans(i) == {j \in (i + 1)..Len(spans) : spans[j].name = "graphql.resolve"}

\* the rank of j in the set of indices S
Rank(S, j) == Cardinality({k \in S : k <= j})

\* frame i is a traced execute wrapper waiting for graphql's execute
ExecutePair(i) ==
    /\ i < Len(stack)
    /\ stack[i].name = "_traced_execute"
    /\ Traced(stack[i])
    /\ stack[i].pc = "wait"
    /\ stack[i + 1].kind = "orig"

\* the field resolutions execute (frame e) has begun and whose outermost
\* middleware has made its pin check
Resolutions(e) ==
    stack[e].idx + (IF stack[e].pc = "wait" /\ stack[e + 1].pc # "start" THEN 1 ELSE 0)

\* C8: during a traced execute call, tracing still being enabled: with
\* resolvers_enabled on, every field resolution goes through the resolver
\* middleware and there is exactly one resolve span per field resolution, in
\* order, its resource the field's name, opened after the execute span and
\* finished, but for the one in progress, while the execute span is open; once
\* the execute wrapper is done, each was finished before the execute span was.
\* With resolvers_enabled off there is no resolve span and execute receives the
\* arguments of the caller.
C8_ResolveSpans ==
    /\ \A i \in Frames :
           (ExecutePair(i) /\ resolvers_enabled /\ PinEnabled) =>
               LET w == stack[i]
                   e == stack[i + 1]
                   rs == ResolveSpans(w.span)
               IN /\ e.pc = "wait" => stack[i + 2].name = "_resolver_middleware"
                  /\ Cardinality(rs) = Resolutions(i + 1)
                  /\ spans[w.span].finish = 0
                  /\ \A j \in rs :
                         /\ spans[j].resource = <<FieldNames[Rank(rs, j)]>>
                         /\ spans[j].start > spans[w.span].start
                         /\ spans[j].finish = 0 =>
                                (e.pc = "wait" /\ Rank(rs, j) = e.idx + 1)
    /\ \A i \in Frames :
           LET w == stack[i] IN
           (w.name = "_traced_execute" /\ Traced(w) /\ w.pc = "done" /\ w.span # 0) =>
               \A j \in ResolveSpans(w.span) :
                   /\ spans[j].start > spans[w.span].start
                   /\ spans[j].finish > spans[j].start
                   /\ spans[j].finish < spans[w.span].finish
    /\ ~resolvers_enabled =>
           /\ \A j \in 1..Len(spans) : spans[j].name # "graphql.resolve"
           /\ \A i \in Frames :
                  (stack[i].name = "_traced_execute" /\ Traced(stack[i])
                       /\ stack[i].path = "traced")
                  => stack[i].sent = stack[i].args

\* a traced execute call has resolved two fields: two finished resolve spans,
\* named after the fields, inside the open execute span
C8_Witness ==
    /\ Len(stack) >= 2
    /\ ExecutePair(Len(stack) - 1)
    /\ resolvers_enabled
    /\ PinEnabled
    /\ Top.idx = 2
    /\ LET rs == ResolveSpans(Caller.span) IN
       /\ Cardinality(rs) = 2
       /\ \E j, k \in rs :
              /\ j < k
              /\ spans[j].resource = <<"hello">>
              /\ spans[k].resource = <<"world">>
              /\ spans[j].finish > 0
              /\ spans[k].finish > 0

\* resolvers_enabled off: a traced execute call with a middleware list of the
\* caller is done and the list went through as it was
C8_WitnessOff ==
    /\ stack # <<>>
    /\ ~resolvers_enabled
    /\ Top.name = "_traced_execute"
    /\ Traced(Top)
    /\ Top.pc = "done"
    /\ Top.span # 0
    /\ Top.args.kw.middleware = V("list", <<"m1", "m2">>)
    /\ Top.sent = Top.args

\* C9 as stated: the tracing middleware runs after (closer to the resolver
\* than) every middleware of the caller: on the call stack of a field
\* resolution it is above each of them.
C9_Original ==
    \A i, j \in Frames :
        (IsUserMiddleware(stack[i]) /\ stack[j].name = "_resolver_middleware") => i < j

\* C9: on the call stack of a field resolution of a traced execute call with
\* resolvers_enabled on, the tracing middleware is the first frame above
\* execute, its `next` is the chain of the caller's middlewares in their order,
\* and every middleware of the caller and the resolver run above it: it is the
\* outermost wrapper, called before (farther from the resolver than) all
\* pre-existing middlewares, and its span, if it opened one, is open while they
\* and the resolver run.
C9_TracingOutermost ==
    \A i \in Frames :
        (ExecutePair(i) /\ resolvers_enabled /\ stack[i + 1].pc = "wait") =>
            LET t == stack[i + 2] IN
            /\ t.name = "_resolver_middleware"
            /\ Append(t.func, "_resolver_middleware")
                   = ExecuteMiddlewares(stack[i + 1].args)
            /\ t.func = ExecuteMiddlewares(stack[i].args)
            /\ \A j \in (i + 3)..Len(stack) :
                   /\ IsUserMiddleware(stack[j]) \/ stack[j].kind = "resolver"
                   /\ t.pc = "wait"
                   /\ t.path = "traced" => spans[t.span].finish = 0

\* the tracing middleware was appended to the list [m1, m2] of the caller; the
\* resolver runs, called by m1, called by m2, called by the tracing middleware
C9_Witness ==
    /\ Len(stack) >= 6
    /\ ExecutePair(Len(stack) - 5)
    /\ ExecuteMiddlewares(stack[Len(stack) - 5].args) = <<"m1", "m2">>
    /\ stack[Len(stack) - 3].name = "_resolver_middleware"
    /\ stack[Len(stack) - 3].path = "traced"
    /\ stack[Len(stack) - 2].name = "m2"
    /\ stack[Len(stack) - 1].name = "m1"
    /\ Top.kind = "resolver"

(***************************************************************************)
(* Properties of the argument lookups.                                     *)
(***************************************************************************)
\* the middleware argument of an execute call is there
MiddlewareFound(f) ==
    get_argument_value(f.args.pos, f.args.kw, middlewares_arg, "middleware").ok

\* frame f is a traced execute wrapper of a process with resolvers_enabled on:
\* one that has run _inject_trace_middleware_to_args
Injecting(f) == f.name = "_traced_execute" /\ Traced(f) /\ resolvers_enabled

\* C11 as stated: whichever argument a traced wrapper looks up and does not
\* find (source, document or middleware), the wrapper, once done, has raised
\* ArgumentError.
C11_Original ==
    \A i \in Frames :
        LET f == stack[i] IN
        (Traced(f) /\ f.pc = "done"
             /\ (~ArgumentFound(f) \/ (Injecting(f) /\ ~MiddlewareFound(f))))
            => f.out = Exc("ArgumentError")

\* C11: a traced execute (query) wrapper raises ArgumentError exactly when the
\* document (source) is present neither positionally nor by keyword; it then
\* has not called the wrapped function, and the error reaches the caller as
\* the outcome of the call.  A missing middleware argument raises nothing:
\* the injector starts from an empty list and the wrapped execute is called
\* with the tracing middleware alone.
C11_ArgumentErrorPropagates ==
    /\ [](\A i \in Frames :
              LET f == stack[i] IN
              Traced(f) =>
                  /\ ~ArgumentFound(f) <=> f.path = "error"
                  /\ f.path = "error" =>
                         /\ f.pc = "done"
                         /\ f.calls = 0
                         /\ f.out = Exc("ArgumentError")
                  /\ (Injecting(f) /\ ArgumentFound(f) /\ ~MiddlewareFound(f)) =>
                         /\ f.path = "traced"
                         /\ f.calls = 1
                         /\ ExecuteMiddlewares(f.sent) = <<"_resolver_middleware">>)
    /\ [][(Len(stack) = 1 /\ Top.path = "error" /\ stack' = <<>>)
              => result' = Exc("ArgumentError")]_vars

\* user code called a patched entry point without the argument its wrapper
\* reads, tracing enabled, and got ArgumentError, no span opened
C11_Witness ==
    /\ Idle
    /\ op = "call"
    /\ PinEnabled
    /\ result = Exc("ArgumentError")
    /\ spans = <<>>

\* execute was called without a middleware argument: the wrapper calls the
\* wrapped execute with the tracing middleware as keyword argument
C11_WitnessMiddlewareAbsent ==
    /\ stack # <<>>
    /\ Injecting(Top)
    /\ ~MiddlewareFound(Top)
    /\ Top.pc = "done"
    /\ Top.sent.kw.middleware = V("list", <<"_resolver_middleware">>)
    /\ Top.out.t = "ret"

(***************************************************************************)
(* Properties of the result classification.                                *)
(***************************************************************************)
ErrorTags(span) == {t \in span.tags : t[1] \in {ERROR_MSG, ERROR_TYPE, ERROR_STACK}}

\* frame f is a traced execute or query wrapper whose wrapped function has
\* returned a value and whose span is finished
ReturnedTraced(f) ==
    /\ f.name \in {"_traced_execute", "_traced_query"}
    /\ Traced(f)
    /\ f.path = "traced"
    /\ f.pc = "done"
    /\ f.got.t = "ret"

\* C12: when the function wrapped by a traced execute or query wrapper has
\* returned, the wrapper's span has its error flag set, and carries error tags,
\* exactly when the value returned is an ExecutionResult with a non-empty list
\* of errors; for a promise, whatever errors it will resolve to, the flag is 0
\* and there is no error tag; in both cases the wrapper returns the value as
\* it got it.
C12_PromiseNotAnnotated ==
    \A i \in Frames :
        LET f == stack[i]
            span == spans[f.span]
        IN ReturnedTraced(f) =>
               /\ span.error = 1 <=> (f.got.v.t = "ExecutionResult" /\ f.got.v.s # <<>>)
               /\ span.error \in {0, 1}
               /\ ErrorTags(span) # {} <=> span.error = 1
               /\ f.got.v.t = "Promise" => (span.error = 0 /\ ErrorTags(span) = {})
               /\ f.out = f.got

\* the wrapped execute returned a promise that will resolve to a result with
\* an error: the execute span is finished without error flag or error tag and
\* the wrapper returns the promise
C12_Witness ==
    /\ stack # <<>>
    /\ Top.name = "_traced_execute"
    /\ ReturnedTraced(Top)
    /\ Top.out = Ret(V("Promise", <<"e3">>))
    /\ spans[Top.span].error = 0
    /\ spans[Top.span].tags = {}
    /\ spans[Top.span].finish > 0

(***************************************************************************)
(* Properties of _get_source_str.                                          *)
(***************************************************************************)
\* position i of text s is kept: a character that is not white space, or the
\* first of a run of white space that has a character that is not white
\* space somewhere before it and somewhere after it
Kept(s, i) ==
    \/ ~IsSpace(s[i])
    \/ /\ i > 1
       /\ ~IsSpace(s[i - 1])
       /\ \E j \in (i + 1)..Len(s) : ~IsSpace(s[j])

\* text s, every maximal run of white space replaced by one space, the runs
\* at both ends removed
Collapsed(s) ==
    LET F[i \in 0..Len(s)] ==
            IF i = 0 THEN <<>>
            ELSE IF Kept(s, i) THEN Append(F[i - 1], IF IsSpace(s[i]) THEN " " ELSE s[i])
            ELSE F[i - 1]
    IN F[Len(s)]

\* no new line, no tab, no two adjacent spaces, no space at either end
Compact(s) ==
    /\ \A i \in 1..Len(s) : s[i] \notin {"\n", "\t"}
    /\ \A i \in 1..(Len(s) - 1) : ~(s[i] = " " /\ s[i + 1] = " ")
    /\ s # <<>> => (s[1] # " " /\ Last(s) # " ")

C13_WitnessAgain ==
    /\ stack # <<>>
    /\ Top.name = "_get_source_str"
    /\ Top.pc = "done"
    /\ Top.idx = 1
    /\ Top.out = Ret(V("str", <<"q", " ", "a">>))

\* an object that is neither str, Source nor Document gave ""
C13_WitnessUnrecognized ==
    /\ stack # <<>>
    /\ Top.name = "_get_source_str"
    /\ Top.pc = "done"
    /\ Top.args.pos[1] = V("bytes", <<"q", " ", "a">>)
    /\ Top.out = Ret(V("str", <<>>))

(***************************************************************************)
(* Properties of _inject_trace_middleware_to_args.                         *)
(***************************************************************************)
\* frame f is a traced execute wrapper, resolvers_enabled on, that has called
\* the wrapped execute
Injected(f) == Injecting(f) /\ f.path = "traced"

\* B: the middlewares of the caller
BaseMiddlewares(a) ==
    LET m == GivenMiddleware(a) IN
    IF m.t \in {"list", "MiddlewareManager"} THEN m.s ELSE <<>>

Count(s, x) == Cardinality({k \in 1..Len(s) : s[k] = x})

\* C14: the middleware argument a traced execute wrapper, resolvers_enabled
\* on, hands to the wrapped execute is a list: the middlewares of the caller
\* (those of the list or of the MiddlewareManager given, none if the argument
\* is absent, None or empty), in their order, followed by the tracing
\* middleware, which occurs in it once.
C14_InjectedList ==
    \A i \in Frames :
        LET f == stack[i]
            handed == GivenMiddleware(f.sent)
        IN Injected(f) =>
               /\ handed.t = "list"
               /\ handed.s = BaseMiddlewares(f.args) \o <<"_resolver_middleware">>
               /\ Last(handed.s) = "_resolver_middleware"
               /\ Count(handed.s, "_resolver_middleware") = 1

\* the caller gave a MiddlewareManager of [m1, m2] by keyword: the wrapped
\* execute is running with the list [m1, m2, tracing middleware]
C14_Witness ==
    /\ Len(stack) >= 2
    /\ Injected(Caller)
    /\ Caller.args.kw.middleware = V("MiddlewareManager", <<"m1", "m2">>)
    /\ Top.kind = "orig"
    /\ Top.args.kw.middleware = V("list", <<"m1", "m2", "_resolver_middleware">>)

\* C15: the arguments a traced execute wrapper, resolvers_enabled on, hands to
\* the wrapped execute have as many positional arguments as the call; if the
\* middleware was given positionally, only its positional slot differs and
\* the keyword arguments are those of the call; otherwise the positional
\* arguments are those of the call and only the keyword middleware differs.
C15_CallingConvention ==
    \A i \in Frames :
        LET f == stack[i]
            a == f.args
            b == f.sent
        IN Injected(f) =>
               /\ Len(b.pos) = Len(a.pos)
               /\ IF Len(a.pos) > middlewares_arg
                  THEN /\ \A k \in 1..Len(a.pos) :
                              k # middlewares_arg + 1 => b.pos[k] = a.pos[k]
                       /\ b.pos[middlewares_arg + 1] # a.pos[middlewares_arg + 1]
                       /\ b.kw = a.kw
                  ELSE /\ b.pos = a.pos
                       /\ \A k \in DOMAIN a.kw : k # "middleware" => b.kw[k] = a.kw[k]
                       /\ b.kw.middleware # a.kw.middleware
                       /\ b.kw.middleware.t = "list"

\* an all-positional call with the list [m1] at the middleware slot: the
\* wrapped execute gets as many positional arguments, the list with the
\* tracing middleware at the same slot, and no keyword argument
C15_Witness ==
    /\ Len(stack) >= 2
    /\ Injected(Caller)
    /\ Len(Caller.args.pos) = middlewares_arg + 1
    /\ Caller.args.pos[middlewares_arg + 1] = V("list", <<"m1">>)
    /\ Top.kind = "orig"
    /\ Len(Top.args.pos) = middlewares_arg + 1
    /\ Top.args.pos[middlewares_arg + 1] = V("list", <<"m1", "_resolver_middleware">>)
    /\ Top.args.kw = NoKw

\* the slot C16 names for the version
NamedSlot == IF graphql_version \in {<<1, 9>>, <<2, 3>>, <<3, 0>>, <<3, 1>>} THEN 8 ELSE 9

\* C16: the version never changes, and in every all-positional execute call
\* that a traced wrapper, resolvers_enabled on, hands on, the list with the
\* tracing middleware is at python position 8 when the version is below 3.2
\* (1.9, 2.3, 3.0, 3.1) and at position 9 when it is 3.2, the only
\* position rewritten.
C16_SlotByVersion ==
    /\ [](/\ middlewares_arg = NamedSlot
          /\ \A i \in Frames :
                 LET f == stack[i] IN
                 (Injected(f) /\ Len(f.args.pos) > NamedSlot) =>
                     /\ f.sent.pos[NamedSlot + 1].t = "list"
                     /\ Last(f.sent.pos[NamedSlot + 1].s) = "_resolver_middleware"
                     /\ \A k \in 1..Len(f.args.pos) :
                            k # NamedSlot + 1 => f.sent.pos[k] = f.args.pos[k])
    /\ [][graphql_version' = graphql_version]_vars

\* version 3.1: an all-positional call of nine arguments, the middleware
\* None, is handed on with the tracing middleware at position 8
C16_Witness ==
    /\ Len(stack) >= 2
    /\ graphql_version = <<3, 1>>
    /\ Injected(Caller)
    /\ Len(Caller.args.pos) = 9
    /\ Caller.args.pos[9] = NoneV
    /\ Top.kind = "orig"
    /\ Top.args.pos[9] = V("list", <<"_resolver_middleware">>)

\* version 3.2: an all-positional call of ten arguments is handed on with the
\* tracing middleware at position 9
C16_WitnessCurrent ==
    /\ Len(stack) >= 2
    /\ graphql_version = <<3, 2>>
    /\ Injected(Caller)
    /\ Len(Caller.args.pos) = 10
    /\ Top.kind = "orig"
    /\ Top.args.pos[10] = V("list", <<"_resolver_middleware">>)

(***************************************************************************)
(* The resolve span in time.                                               *)
(***************************************************************************)
\* frame j runs for a field resolution of the execute call of the traced
\* wrapper at frame i, resolvers_enabled on
ResolvesUnder(i, j) == ExecutePair(i) /\ resolvers_enabled /\ j > i + 1

\* the resolve span number k is finished by this step
ResolveSpanCloses(k) ==
    /\ k <= Len(spans')
    /\ spans[k].name = "graphql.resolve"
    /\ spans[k].finish = 0
    /\ spans'[k].finish # 0

\* C17: in a field resolution of a traced execute call, resolvers_enabled on,
\* every middleware of the caller and the resolver were entered by way of the
\* tracing middleware, and, when it opened a resolve span, after that span was
\* opened and while it is open; and the step that finishes a resolve span is
\* the return to the tracing middleware that opened it, when every middleware
\* of the caller and the resolver have returned.
C17_SpanWrapsMiddlewares ==
    /\ [](\A i, j \in Frames :
              (ResolvesUnder(i, j)
                   /\ (IsUserMiddleware(stack[j]) \/ stack[j].kind = "resolver")) =>
                  LET t == stack[i + 2] IN
                  /\ i + 2 < j
                  /\ t.name = "_resolver_middleware"
                  /\ t.pc = "wait"
                  /\ t.path = "traced" =>
                         /\ spans[t.span].name = "graphql.resolve"
                         /\ stack[j].n0 >= t.span
                         /\ spans[t.span].start <= now
                         /\ spans[t.span].finish = 0)
    /\ [][\A k \in 1..Len(spans) :
              ResolveSpanCloses(k) =>
                  /\ Top.pc = "done"
                  /\ Len(stack') = Len(stack) - 1
                  /\ stack'[Len(stack')].name = "_resolver_middleware"
                  /\ stack'[Len(stack')].span = k
                  /\ stack'[Len(stack')].pc = "done"
                  /\ \A j \in 1..Len(stack') :
                         ~IsUserMiddleware(stack'[j]) /\ stack'[j].kind # "resolver"]_vars

\* the tracing middleware, appended to the list [m1, m2] of the caller, has
\* got the outcome of m2 (which called m1, which called the resolver) and its
\* resolve span, opened before, is now finished
C17_Witness ==
    /\ stack # <<>>
    /\ Top.name = "_resolver_middleware"
    /\ Top.func = <<"m1", "m2">>
    /\ Top.path = "traced"
    /\ Top.pc = "done"
    /\ Top.got.t = "ret"
    /\ spans[Top.span].name = "graphql.resolve"
    /\ spans[Top.span].finish > spans[Top.span].start

(***************************************************************************)
(* The spans of one request.                                               *)
(***************************************************************************)
Stages == <<"graphql.parse", "graphql.validate", "graphql.execute">>

\* the spans of the stages opened after span number q
StageSpans(q) ==
    {k \in (q + 1)..Len(spans) : \E n \in 1..Len(Stages) : spans[k].name = Stages[n]}

\* frame i is a traced query wrapper waiting for the query entry point
QueryPair(i) ==
    /\ i < Len(stack)
    /\ stack[i].name = "_traced_query"
    /\ Traced(stack[i])
    /\ stack[i].pc = "wait"
    /\ stack[i + 1].kind = "orig"

\* the stages the query entry point at frame e has called and whose wrapper
\* has made its pin check
Begun(e) ==
    IF stack[e].pc = "wait" /\ stack[e + 1].pc = "start"
    THEN stack[e].idx - 1
    ELSE stack[e].idx

\* span l lies inside span k, which was opened before it
Inside(l, k) ==
    /\ spans[l].start > spans[k].start
    /\ spans[k].finish # 0 =>
           (spans[l].finish # 0 /\ spans[l].finish < spans[k].finish)

\* span k was finished before span l was opened
Before(k, l) == spans[k].finish # 0 /\ spans[k].finish < spans[l].start

\* C18: of any two spans of a call, the later is inside the earlier or was
\* opened after the earlier was finished.  During a traced query call,
\* tracing still enabled, the stages the query entry point has called have
\* one span each, in the order parse, validate, execute, each opened after
\* the query span, which is still open, and each finished before the next is
\* opened; once the query wrapper is done, every other span was opened after
\* and finished before the query span.
C18_SpansNested ==
    /\ \A k, l \in 1..Len(spans) : k < l => (Inside(l, k) \/ Before(k, l))
    /\ \A k \in 1..Len(spans) :
           spans[k].start > 0 /\ (spans[k].finish = 0 \/ spans[k].finish > spans[k].start)
    /\ \A i \in Frames :
           (QueryPair(i) /\ PinEnabled) =>
               LET q == stack[i].span
                   ss == StageSpans(q)
               IN /\ q = 1
                  /\ spans[q].name = "graphql.query"
                  /\ spans[q].finish = 0
                  /\ Cardinality(ss) = Begun(i + 1)
                  /\ \A k \in ss : spans[k].name = Stages[Rank(ss, k)]
                  /\ \A k, l \in ss : k < l => Before(k, l)
    /\ \A i \in Frames :
           LET w == stack[i] IN
           (w.name = "_traced_query" /\ Traced(w) /\ w.pc = "done" /\ w.span # 0) =>
               /\ spans[w.span].finish # 0
               /\ \A k \in (w.span + 1)..Len(spans) :
                      /\ spans[k].start > spans[w.span].start
                      /\ spans[k].finish > spans[k].start
                      /\ spans[k].finish < spans[w.span].finish

\* a traced query call went through parse, validate and execute: four
\* spans, each stage finished before the next was opened, all inside the
\* query span
C18_Witness ==
    /\ stack # <<>>
    /\ Top.name = "_traced_query"
    /\ Traced(Top)
    /\ Top.pc = "done"
    /\ Len(spans) = 4
    /\ [k \in 1..4 |-> spans[k].name]
           = <<"graphql.query", "graphql.parse", "graphql.validate", "graphql.execute">>
    /\ Before(2, 3)
    /\ Before(3, 4)
    /\ spans[4].finish < spans[1].finish

(***************************************************************************)
(* The middleware object of the caller.                                    *)
(***************************************************************************)
\* C20: the middleware list or MiddlewareManager user code passed with a call
\* is, throughout the call, as it was passed, and between calls only user
\* code changes it (by making a call with another one); the list a traced
\* execute wrapper, resolvers_enabled on, hands on is the middlewares of that
\* object followed by one tracing middleware; and in a call that passes the
\* object of the previous call again, the object holds no tracing middleware
\* and the wrapped execute again gets exactly one.
C20_CallerListUntouched ==
    /\ [](/\ stack # <<>> => caller_middleware = Owned(stack[1].args)
          /\ Count(caller_middleware.s, "_resolver_middleware") = 0
          /\ \A i \in Frames :
                 LET f == stack[i] IN
                 Injected(f) =>
                     /\ GivenMiddleware(f.sent).s # caller_middleware.s
                     /\ Count(GivenMiddleware(f.sent).s, "_resolver_middleware") = 1
                     /\ Owned(f.args) # Absent =>
                            GivenMiddleware(f.sent).s
                                = caller_middleware.s \o <<"_resolver_middleware">>)
    /\ [][caller_middleware' # caller_middleware => (Idle /\ op' = "call")]_vars

\* the list [m1, m2] is passed a second time: it is still [m1, m2] and the
\* wrapped execute runs with [m1, m2, tracing middleware]
C20_Witness ==
    /\ Len(stack) >= 2
    /\ op = "call_again"
    /\ Injected(Caller)
    /\ Top.kind = "orig"
    /\ caller_middleware = V("list", <<"m1", "m2">>)
    /\ GivenMiddleware(Caller.args) = V("list", <<"m1", "m2">>)
    /\ GivenMiddleware(Top.args) = V("list", <<"m1", "m2", "_resolver_middleware">>)

(***************************************************************************)
(* The patch flag and the function table.                                  *)
(***************************************************************************)
\* every call site of the resolved partition holds its wrapper around the
\* original function
AllWrapped ==
    \A i \in 1..Len(_get_patching_candidates) :
        LET c == _get_patching_candidates[i] IN table[<<c[1], c[2]>>] = <<c[2], c[3]>>

\* every call site holds its original function
AllOriginal == \A s \in Sites : table[s] = <<s[2]>>

\* C19: for a library of version >= 2.0, at any time the patch flag is true
\* exactly when every call site holds its wrapper and false exactly when
\* every call site holds its original function, and no call site carries more
\* than one wrapper; a patch() call leaves the flag true, an unpatch() call
\* leaves it false, whatever came before, and nothing else changes the flag
\* or the table.
C19_FlagMatchesTable ==
    /\ [](~VLess(graphql_version, <<2, 0>>) =>
              /\ _datadog_patch <=> AllWrapped
              /\ ~_datadog_patch <=> AllOriginal
              /\ \A s \in Sites : Wrappers(s) <= 1)
    /\ [][~VLess(graphql_version, <<2, 0>>) =>
              /\ op' \in PatchOps => (_datadog_patch' /\ table' = PatchedTable)
              /\ op' \in UnpatchOps => (~_datadog_patch' /\ table' = OriginalTable)
              /\ op' \notin (PatchOps \cup UnpatchOps) =>
                     UNCHANGED <<_datadog_patch, table>>]_vars

\* patch() ran, later user code made a call that returned a value, and then
\* unpatch() removed the wrappers: the flag is false and every call site
\* holds its original function
C19_Witness ==
    /\ op = "unpatch"
    /\ ~VLess(graphql_version, <<2, 0>>)
    /\ result.t = "ret"
    /\ ~_datadog_patch
    /\ AllOriginal
    /\ ~AllWrapped

====
